---- MODULE Spec2Model ----
(***************************************************************************)
(* A model of the file organizer of src/organizer.py: the command line     *)
(* entry point main(), FileOrganizer.load_config, organize_files (the      *)
(* transfer loop), save_undo_log and undo_operations, over an explicit     *)
(* filesystem (files by path, directories, the undo log file); and of the  *)
(* category lookup of the older command line, src/main.py.                 *)
(*                                                                         *)
(* Spec: sessions of one organize command, with or without a preview by    *)
(* --dry-run, followed by undo commands.  SpecFilter: live runs over the   *)
(* filter options.  SpecConfig: runs with a category table from --config.  *)
(*                                                                         *)
(* A path is a record [dir, base, ctr, ext]: the directory as a sequence   *)
(* of names, and the file name base_c1_c2...ext, where ctr = <<c1, c2,..>> *)
(* are the counters get_unique_filename has appended to the stem.          *)
(* An Optional[...] argument is a set with at most one element.            *)
(***************************************************************************)
EXTENDS Integers, Sequences, FiniteSets, TLC

VARIABLES
    fs,               \* the files on disk: path -> [id, size]
    dirs,             \* the directories on disk
    next_id,          \* identity given to the next file a copy creates
    log_file,         \* the undo log file named by --save-log / --undo
    pc,               \* "idle", "organize" (in the loop), "undo" (in the loop)
    args,             \* the arguments of the last organize invocation
    file_types,       \* FileOrganizer.file_types
    files,            \* organize_files: the enumerated candidates
    idx,              \* organize_files: candidates consumed so far
    operations_log,   \* FileOrganizer.operations_log
    files_processed,  \* organize_files: counter
    files_moved,      \* organize_files: counter
    reported,         \* the "[Dry Run] Would ..." lines printed, as <<source, target>>
    errors,           \* logger.error calls of the current invocation
    uargs,            \* the arguments of the last undo invocation
    operations,       \* undo_operations: the loaded operations
    upos,             \* undo_operations: records consumed so far
    replayed,         \* undo_operations: the records consumed so far, in order
    undone_count,     \* undo_operations: counter
    returned,         \* what the last organize_files / undo_operations call gave back
    exit_status,      \* exit status of the last finished main()
    trace,            \* the invocations finished so far, oldest first
    fs0,              \* the files on disk when the last organize invocation started
    ufs0,             \* the files on disk when the last undo invocation started
    preview,          \* the last finished dry run: what it started from and reported
    faults            \* injected filesystem errors so far

vars == <<fs, dirs, next_id, log_file, pc, args, file_types, files, idx,
          operations_log, files_processed, files_moved, reported, errors,
          uargs, operations, upos, replayed, undone_count, returned,
          exit_status,
          trace, fs0, ufs0, preview, faults>>

----------------------------------------------------------------------------
(* Bounds of the model *)

MaxInitFiles == 2     \* files on disk initially, besides ./plain
MaxMains == 3         \* invocations of main() in one behaviour
MaxFaults == 1        \* injected filesystem errors in one behaviour

----------------------------------------------------------------------------
(* Paths *)

Path(d, b, c, e) == [dir |-> d, base |-> b, ctr |-> c, ext |-> e]

\* str.lower() on the extensions and names of the model
Lower(s) ==
    CASE s = ".JPG" -> ".jpg"
      [] s = ".TXT" -> ".txt"
      [] s = "A" -> "a"
      [] OTHER -> s

IsPrefix(p, d) == Len(p) <= Len(d) /\ SubSeq(d, 1, Len(p)) = p

\* Path.parent of a directory and all its ancestors, itself included
Ancestors(d) == { SubSeq(d, 1, n) : n \in 1..Len(d) }

\* the path of a directory read as the path of a file: its last name, no suffix
AsFile(d) == Path(SubSeq(d, 1, Len(d) - 1), d[Len(d)], <<>>, "")

Reverse(s) == [i \in 1..Len(s) |-> s[Len(s) + 1 - i]]

SeqToSet(s) == { s[i] : i \in 1..Len(s) }

\* all the orders in which a directory listing can deliver the set S
Orderings(S) ==
    { s \in [1..Cardinality(S) -> S] : \A i, j \in 1..Cardinality(S) : s[i] = s[j] => i = j }

Restrict(f, S) == [x \in S |-> f[x]]

----------------------------------------------------------------------------
(* The category table and the pure helpers of FileOrganizer *)

Entry(c, e) == [category |-> c, extensions |-> e]

DEFAULT_FILE_TYPES ==
    << Entry("Images", <<".jpg", ".jpeg", ".png", ".gif", ".bmp", ".svg", ".webp", ".tiff", ".ico">>),
       Entry("Documents", <<".pdf", ".docx", ".txt", ".rtf", ".odt", ".pages", ".doc">>),
       Entry("Videos", <<".mp4", ".mov", ".avi", ".mkv", ".wmv", ".flv", ".webm", ".m4v">>),
       Entry("Audio", <<".mp3", ".wav", ".flac", ".aac", ".ogg", ".wma", ".m4a">>),
       Entry("Archives", <<".zip", ".tar.gz", ".rar", ".7z", ".tar", ".gz", ".bz2">>),
       Entry("Code", <<".py", ".js", ".html", ".css", ".java", ".cpp", ".c", ".h", ".php", ".rb">>),
       Entry("Spreadsheets", <<".xlsx", ".xls", ".csv", ".ods", ".numbers">>),
       Entry("Presentations", <<".pptx", ".ppt", ".odp", ".key">>),
       Entry("Executables", <<".exe", ".msi", ".dmg", ".pkg", ".deb", ".rpm", ".app">>),
       Entry("Fonts", <<".ttf", ".otf", ".woff", ".woff2", ".eot">>) >>

\* variant: the extension is compared as given, not lower-cased
get_category_as_given(file_extension, table) ==
    LET hits == { i \in 1..Len(table) :
                    \E j \in 1..Len(table[i].extensions) :
                        Lower(table[i].extensions[j]) = file_extension }
    IN  IF hits = {} THEN "Other"
        ELSE table[CHOOSE i \in hits : \A k \in hits : i <= k].category

\* get_category: the first category, in the table's order, that lists the extension
get_category(file_extension, table) ==
    LET ext_lower == Lower(file_extension)
        hits == { i \in 1..Len(table) :
                    \E j \in 1..Len(table[i].extensions) :
                        Lower(table[i].extensions[j]) = ext_lower }
    IN  IF hits = {} THEN "Other"
        ELSE table[CHOOSE i \in hits : \A k \in hits : i <= k].category

\* FILE_TYPES of src/main.py
FILE_TYPES ==
    << Entry("Images", <<".jpg", ".jpeg", ".png", ".gif", ".bmp", ".svg", ".webp">>),
       Entry("Documents", <<".pdf", ".docx", ".txt", ".rtf", ".odt", ".pages">>),
       Entry("Videos", <<".mp4", ".mov", ".avi", ".mkv", ".wmv", ".flv">>),
       Entry("Audio", <<".mp3", ".wav", ".flac", ".aac", ".ogg">>),
       Entry("Archives", <<".zip", ".tar.gz", ".rar", ".7z", ".tar", ".gz">>),
       Entry("Code", <<".py", ".js", ".html", ".css", ".java", ".cpp", ".c">>),
       Entry("Spreadsheets", <<".xlsx", ".xls", ".csv", ".ods">>),
       Entry("Presentations", <<".pptx", ".ppt", ".odp">>) >>

\* organize() of src/main.py, lines 41-42: the suffix is lower-cased and
\* looked up as it is in the lists of FILE_TYPES
organize_category(suffix) ==
    LET ext == Lower(suffix)
        hits == { i \in 1..Len(FILE_TYPES) :
                    \E j \in 1..Len(FILE_TYPES[i].extensions) :
                        FILE_TYPES[i].extensions[j] = ext }
    IN  IF hits = {} THEN "Other"
        ELSE FILE_TYPES[CHOOSE i \in hits : \A k \in hits : i <= k].category

\* Path.exists(): a file, or a directory, is at the path
Exists(p, disk, dd) == p \in DOMAIN disk \/ \E d \in dd : AsFile(d) = p

\* the name stem_counter + suffix in the same directory
Numbered(target_path, counter) ==
    [target_path EXCEPT !.ctr = Append(@, counter)]

\* variant: the counter is not advanced, stem_1+suffix is returned unchecked
get_unique_filename_once(target_path, disk, dd) ==
    IF ~Exists(target_path, disk, dd) THEN target_path
    ELSE Numbered(target_path, 1)

\* get_unique_filename: the target itself when nothing is there, else the
\* first stem_k+suffix, k = 1, 2, ..., at which nothing is
get_unique_filename(target_path, disk, dd) ==
    IF ~Exists(target_path, disk, dd) THEN target_path
    ELSE LET top == Cardinality(DOMAIN disk) + Cardinality(dd) + 1
             free == { k \in 1..top : ~Exists(Numbered(target_path, k), disk, dd) }
         IN  Numbered(target_path, CHOOSE k \in free : \A m \in free : k <= m)

\* the regular expressions of the model; "[" does not compile (re.error)
Malformed == { "[" }

\* re.search(pattern, filename, re.IGNORECASE) for the patterns of the model
ReSearch(pattern, p) ==
    CASE pattern = "^a" -> Lower(p.base) = "a"
      [] pattern = "txt$" -> Lower(p.ext) = ".txt"
      [] OTHER -> FALSE

\* matches_pattern: no pattern and a malformed pattern both give True
matches_pattern(p, pattern) ==
    IF pattern = {} \/ pattern = {""} THEN TRUE
    ELSE LET re == CHOOSE x \in pattern : TRUE
         IN  IF re \in Malformed THEN TRUE ELSE ReSearch(re, p)

\* variant: a file of exactly min_size or max_size bytes is turned down
check_file_size_exclusive(file_path, min_size, max_size, disk) ==
    IF file_path \notin DOMAIN disk THEN TRUE
    ELSE LET file_size == disk[file_path].size
         IN  /\ ~(\E m \in min_size : file_size <= m)
             /\ ~(\E m \in max_size : file_size >= m)

\* check_file_size: stat() of a missing file raises OSError, which gives True
check_file_size(file_path, min_size, max_size, disk) ==
    IF file_path \notin DOMAIN disk THEN TRUE
    ELSE LET file_size == disk[file_path].size
         IN  /\ ~(\E m \in min_size : file_size < m)
             /\ ~(\E m \in max_size : file_size > m)

\* the three filter tests at the head of the loop body of organize_files
PassesFilter(file_path, a, disk) ==
    /\ matches_pattern(file_path, a.pattern)
    /\ ~(a.exclude_pattern \notin {{}, {""}} /\ matches_pattern(file_path, a.exclude_pattern))
    /\ check_file_size(file_path, a.min_size, a.max_size, disk)

\* target_dir = dest_path / file_category
TargetDir(file_path, a, table) == Append(a.dest, get_category(file_path.ext, table))

\* variant: the target is used as it is, get_unique_filename is not asked
TargetFileAsIs(file_path, a, table, disk, dd) ==
    [file_path EXCEPT !.dir = TargetDir(file_path, a, table)]

\* target_file = get_unique_filename(target_dir / file_path.name)
TargetFile(file_path, a, table, disk, dd) ==
    get_unique_filename([file_path EXCEPT !.dir = TargetDir(file_path, a, table)], disk, dd)

\* variant: the tree is walked whether or not --recursive is given
CandidatesTree(a, disk) == { p \in DOMAIN disk : IsPrefix(a.source, p.dir) }

\* the candidates: src_path.rglob("*") or src_path.iterdir(), files only
Candidates(a, disk) ==
    IF a.recursive THEN { p \in DOMAIN disk : IsPrefix(a.source, p.dir) }
    ELSE { p \in DOMAIN disk : p.dir = a.source }

\* the order in which the listing delivers the candidates: any order, but
\* the order of the preview when the disk is as the preview found it
Listings(a, disk, pv) ==
    IF pv.ran /\ pv.fs = disk /\ pv.args.recursive = a.recursive /\ pv.args.source = a.source
    THEN {pv.files}
    ELSE Orderings(Candidates(a, disk))

\* the record organize_files appends to operations_log
TransferRecord(now, a, file_path, target_file, file_category) ==
    [timestamp |-> now,
     operation |-> IF a.copy_files THEN "copy" ELSE "move",
     source |-> file_path,
     destination |-> target_file,
     category |-> file_category]

\* shutil.move(src, dst) of a file onto a path: dst now holds the file
MoveFile(disk, src, dst) ==
    [p \in (DOMAIN disk \ {src}) \cup {dst} |-> IF p = dst THEN disk[src] ELSE disk[p]]

\* shutil.copy2(src, dst): dst is a new file with the content of src
CopyFile(disk, src, dst, id) ==
    [p \in DOMAIN disk \cup {dst} |->
        IF p = dst THEN [id |-> id, size |-> disk[src].size] ELSE disk[p]]

\* Path.unlink()
Unlink(disk, p) == Restrict(disk, DOMAIN disk \ {p})

\* mkdir(parents=True, exist_ok=True) fails when a file is in the way
MkdirBlocked(d, disk) == \E x \in Ancestors(d) : AsFile(x) \in DOMAIN disk

----------------------------------------------------------------------------
(* The inputs of the model: the initial disk and the command lines *)

SRC == <<"src">>

\* --dest: beside the source, or inside it
Dests == { <<"dst">>, <<"src", "dst">> }

\* the files the initial disk is drawn from, with their identity and size,
\* when --dest is d: three files of the source tree and one already sorted
Universe(d) ==
    LET f(dir, b, e, id, size) == <<Path(dir, b, <<>>, e), [id |-> id, size |-> size]>>
        all == { f(SRC, "a", ".txt", 1, 1),
                 f(<<"src", "sub">>, "a", ".txt", 2, 2),
                 f(SRC, "b", ".JPG", 3, 3),
                 f(Append(d, "Documents"), "a", ".txt", 4, 2) }
    IN  [p \in { x[1] : x \in all } |-> (CHOOSE x \in all : x[1] = p)[2]]

\* a plain file in the working directory, always there
PLAIN == Path(<<>>, "plain", <<>>, "")

\* the positional argument: a directory, a path that does not exist, a plain file
Sources == { SRC, <<"gone">>, <<"plain">> }

Filter(p, x, lo, hi) == [pattern |-> p, exclude_pattern |-> x, min_size |-> lo, max_size |-> hi]

\* --pattern, --exclude, --min-size, --max-size
Filters == { Filter({}, {}, {}, {}),
             Filter({"^a"}, {}, {2}, {}) }

Args(s, d, dr, r, c, f, sl) ==
    [source |-> s, dest |-> d, dry_run |-> dr, recursive |-> r, copy_files |-> c,
     pattern |-> f.pattern, exclude_pattern |-> f.exclude_pattern,
     min_size |-> f.min_size, max_size |-> f.max_size, save_log |-> sl,
     config |-> {}]

\* the command lines of organize mode with --dest d.  A source that fails the
\* checks is tried with one setting of the options, which are not read then;
\* --save-log is not read in a dry run.
OrganizeArgs(d) ==
    { Args(s, d, FALSE, FALSE, FALSE, Filter({}, {}, {}, {}), {}) : s \in Sources \ {SRC} }
    \cup { Args(SRC, d, TRUE, r, c, f, {}) : r \in BOOLEAN, c \in BOOLEAN, f \in Filters }
    \cup { Args(SRC, d, FALSE, r, c, f, sl) :
             r \in BOOLEAN, c \in BOOLEAN, f \in Filters, sl \in { {}, {"undo.json"} } }

NoArgs == [source |-> <<>>, dest |-> <<>>, dry_run |-> FALSE, recursive |-> FALSE,
           copy_files |-> FALSE, pattern |-> {}, exclude_pattern |-> {},
           min_size |-> {}, max_size |-> {}, save_log |-> {}, config |-> {}]

RequiredFields == { "source", "destination", "operation" }

LogMissing == [kind |-> "missing"]
LogGarbage == [kind |-> "garbage"]

\* the document save_undo_log writes
LogDocument(now, ops) ==
    [kind |-> "json",
     session_info |-> [timestamp |-> now, total_operations |-> Len(ops)],
     operations |-> ops]

\* a copy of a saved log in which record i has lost field f
DropField(doc, i, f) ==
    [doc EXCEPT !.operations[i] = [k \in DOMAIN @ \ {f} |-> @[k]]]

\* what --undo can name: the saved log, no file, a file that is not JSON,
\* or the saved log with a required field of one record removed
UndoInputs(doc) ==
    {doc, LogMissing, LogGarbage}
    \cup (IF doc.kind = "json"
          THEN { DropField(doc, i, f) : i \in 1..Len(doc.operations), f \in RequiredFields }
          ELSE {})

\* the command lines of undo mode: --dry-run is tried on the saved log only
UndoArgs(doc) ==
    { [dry_run |-> FALSE, log |-> x] : x \in UndoInputs(doc) }
    \cup { [dry_run |-> TRUE, log |-> doc] }

NoPreview == [ran |-> FALSE]

Init ==
    /\ \E d \in Dests : \E S \in SUBSET DOMAIN Universe(d) :
          /\ Cardinality(S) <= MaxInitFiles
          /\ fs = [p \in S \cup {PLAIN} |->
                     IF p = PLAIN THEN [id |-> 0, size |-> 1] ELSE Universe(d)[p]]
          /\ dirs = {SRC} \cup UNION { Ancestors(p.dir) : p \in S }
          /\ args = [NoArgs EXCEPT !.dest = d]
          /\ next_id = Cardinality(DOMAIN Universe(d)) + 1
    /\ log_file = LogMissing
    /\ pc = "idle"
    /\ file_types = DEFAULT_FILE_TYPES
    /\ files = <<>>
    /\ idx = 0
    /\ operations_log = <<>>
    /\ files_processed = 0
    /\ files_moved = 0
    /\ reported = <<>>
    /\ errors = 0
    /\ uargs = [dry_run |-> FALSE, log |-> LogMissing]
    /\ operations = <<>>
    /\ upos = 0
    /\ replayed = <<>>
    /\ undone_count = 0
    /\ returned = <<>>
    /\ exit_status = {}
    /\ trace = <<>>
    /\ fs0 = fs
    /\ ufs0 = fs
    /\ preview = NoPreview
    /\ faults = 0

----------------------------------------------------------------------------
(* main() in organize mode, and organize_files *)

\* the clock: invocations are numbered in the order they start
Now == Len(trace) + 1

undo_vars == <<uargs, operations, upos, replayed, undone_count, ufs0>>

\* The sessions of the model: one organize command, which the user may try
\* with --dry-run first, followed by undo commands.
Planned(a) ==
    \/ trace = <<>>
    \/ /\ trace = <<"dry">>
       /\ ~a.dry_run
       /\ [a EXCEPT !.dry_run = TRUE, !.save_log = {}] = preview.args

\* what --config can name: no file, or a JSON file holding a category table
ConfigMissing == [kind |-> "missing"]
ConfigFile(table) == [kind |-> "json", table |-> table]

\* main() lines 417-418 and load_config: the table of the file replaces
\* file_types; without --config, or when the file does not exist, the
\* table stays as it is
load_config(config, current) ==
    IF config = {} THEN current
    ELSE LET config_file == CHOOSE c \in config : TRUE
         IN  IF config_file.kind = "json" THEN config_file.table ELSE current

\* variant: only the existence of the source is checked
CheckSourceExists(a, disk, dd) ==
    IF ~Exists(AsFile(a.source), disk, dd) THEN <<"FileNotFoundError">> ELSE <<>>

\* lines 194-201: the two checks of the source path; what is raised, if anything
CheckSource(a, disk, dd) ==
    IF ~Exists(AsFile(a.source), disk, dd) THEN <<"FileNotFoundError">>
    ELSE IF a.source \notin dd THEN <<"NotADirectoryError">>
    ELSE <<>>

\* main() up to the loop of organize_files: a fresh FileOrganizer, the two
\* checks of the source directory, the listing of the candidates.  A failed
\* check raises, main() prints the error and returns 1.
OrganizeStart(a) ==
    /\ pc = "idle"
    /\ Len(trace) < MaxMains
    /\ Planned(a)
    /\ args' = a
    /\ file_types' = load_config(a.config, DEFAULT_FILE_TYPES)
    /\ operations_log' = <<>>
    /\ files_processed' = 0
    /\ files_moved' = 0
    /\ idx' = 0
    /\ reported' = <<>>
    /\ errors' = 0
    /\ fs0' = fs
    /\ IF CheckSource(a, fs, dirs) # <<>>
       THEN /\ returned' = CheckSource(a, fs, dirs)
            /\ exit_status' = {1}
            /\ trace' = Append(trace, "organize_abort")
            /\ files' = <<>>
            /\ pc' = "idle"
       ELSE /\ files' \in Listings(a, fs, preview)
            /\ pc' = "organize"
            /\ UNCHANGED <<returned, exit_status, trace>>
    /\ UNCHANGED <<fs, dirs, next_id, log_file, preview, faults>>
    /\ UNCHANGED undo_vars

\* variant: the dry_run option is never honoured
IsDryRunNever(a) == FALSE

\* is this invocation a dry run (the branch at line 241)
IsDryRun(a) == a.dry_run

\* variant: the copy_files option is ignored, every transfer is a move
TransferAlwaysMoves(disk, a, file_path, target_file, id) ==
    MoveFile(disk, file_path, target_file)

\* lines 250-255: shutil.copy2 or shutil.move of the candidate onto the target
Transfer(disk, a, file_path, target_file, id) ==
    IF a.copy_files THEN CopyFile(disk, file_path, target_file, id)
    ELSE MoveFile(disk, file_path, target_file)

\* variant: the record is appended before the move or copy is attempted
LedgerAfterAlways(log, record, transferred) == Append(log, record)

\* lines 250-264: the append is reached only when the move or copy did not raise
LedgerAfter(log, record, transferred) ==
    IF transferred THEN Append(log, record) ELSE log

\* variant: the except clause is outside the for loop, an error ends it
AfterErrorStops(i, n) == n

\* lines 223-271: the except clause is inside the for loop, so after an
\* error in candidate number i of n the loop goes on with the next one
AfterError(i, n) == i

\* variant: the counter is advanced at the head of the loop body
ProcessedAfterAll(n, passes) == n + 1

\* lines 225-233: files_processed += 1 is reached only past the three filters
ProcessedAfter(n, passes) == IF passes THEN n + 1 ELSE n

\* one iteration of the loop of organize_files.  fault says where the
\* filesystem refuses: "mkdir" in mkdir, "xfer" in shutil.move / shutil.copy2.
OrganizeStep(fault) ==
    /\ pc = "organize"
    /\ idx < Len(files)
    /\ LET file_path == files[idx + 1]
           file_category == get_category(file_path.ext, file_types)
           target_dir == TargetDir(file_path, args, file_types)
           target_file == TargetFile(file_path, args, file_types, fs, dirs)
           record == TransferRecord(Now, args, file_path, target_file, file_category)
           passes == PassesFilter(file_path, args, fs)
           attempted == passes /\ ~IsDryRun(args)
           mkdir_ok == fault # "mkdir" /\ ~MkdirBlocked(target_dir, fs)
           xfer_ok == /\ mkdir_ok
                      /\ fault # "xfer"
                      /\ file_path \in DOMAIN fs
                      /\ ~(args.copy_files /\ file_path = target_file)
           transferred == attempted /\ xfer_ok
           failed == attempted /\ ~xfer_ok
       IN  /\ fault # "none" => attempted /\ faults < MaxFaults
           /\ faults' = IF fault = "none" THEN faults ELSE faults + 1
           /\ files_processed' = ProcessedAfter(files_processed, passes)
           /\ reported' = IF passes /\ IsDryRun(args)
                          THEN Append(reported, <<file_path, target_file>>)
                          ELSE reported
           /\ dirs' = IF attempted /\ mkdir_ok THEN dirs \cup Ancestors(target_dir) ELSE dirs
           /\ fs' = IF transferred
                    THEN Transfer(fs, args, file_path, target_file, next_id)
                    ELSE fs
           /\ next_id' = IF transferred /\ args.copy_files THEN next_id + 1 ELSE next_id
           /\ operations_log' = IF attempted
                                THEN LedgerAfter(operations_log, record, xfer_ok)
                                ELSE operations_log
           /\ files_moved' = IF transferred THEN files_moved + 1 ELSE files_moved
           /\ errors' = IF failed THEN errors + 1 ELSE errors
           /\ idx' = IF failed THEN AfterError(idx + 1, Len(files)) ELSE idx + 1
    /\ UNCHANGED <<log_file, pc, args, file_types, files, returned, exit_status,
                   trace, fs0, preview>>
    /\ UNCHANGED undo_vars

\* save_undo_log: nothing is written for an empty ledger
save_undo_log(ops, old) == IF ops = <<>> THEN old ELSE LogDocument(Now, ops)

\* the loop is over: organize_files returns its two counters, main() prints
\* the summary, saves the undo log when asked to and returns 0
OrganizeFinish ==
    /\ pc = "organize"
    /\ idx = Len(files)
    /\ returned' = <<files_processed, files_moved>>
    /\ log_file' = IF ~args.dry_run /\ args.save_log # {} /\ files_moved > 0
                   THEN save_undo_log(operations_log, log_file)
                   ELSE log_file
    /\ preview' = IF args.dry_run
                  THEN [ran |-> TRUE, fs |-> fs0, args |-> args, files |-> files,
                        reported |-> reported]
                  ELSE preview
    /\ exit_status' = {0}
    /\ trace' = Append(trace, IF args.dry_run THEN "dry" ELSE "live")
    /\ pc' = "idle"
    /\ UNCHANGED <<fs, dirs, next_id, args, file_types, files, idx, operations_log,
                   files_processed, files_moved, reported, errors, fs0, faults>>
    /\ UNCHANGED undo_vars

----------------------------------------------------------------------------
(* main() in undo mode, and undo_operations *)

organize_vars == <<args, file_types, files, idx, operations_log, files_processed,
                   files_moved, reported, fs0, preview>>

\* variant: the log is replayed first to last
ReplayForward(ops) == ops

\* line 325: reversed(operations)
ReplayOrder(ops) == Reverse(ops)

\* main() up to the loop of undo_operations: the log is opened and parsed.
\* A missing file or a file that is not JSON is caught at line 353:
\* undo_operations returns 0, main() prints the count and returns None.
UndoStart(u) ==
    /\ pc = "idle"
    /\ Len(trace) < MaxMains
    /\ uargs' = u
    /\ upos' = 0
    /\ replayed' = <<>>
    /\ undone_count' = 0
    /\ ufs0' = fs
    /\ IF u.log.kind # "json"
       THEN /\ operations' = <<>>
            /\ errors' = 1
            /\ returned' = <<0>>
            /\ exit_status' = {0}
            /\ trace' = Append(trace, "undo_abort")
            /\ pc' = "idle"
       ELSE /\ operations' = u.log.operations
            /\ errors' = 0
            /\ pc' = "undo"
            /\ UNCHANGED <<returned, exit_status, trace>>
    /\ UNCHANGED <<fs, dirs, next_id, log_file, faults>>
    /\ UNCHANGED organize_vars

\* variant: a 'move' record is undone like a 'copy' record
UndoEffectUnlinks(disk, op) == Unlink(disk, op.destination)

\* lines 334-344: what undoing one record does to the files
UndoEffect(disk, op) ==
    IF op.operation = "move" THEN MoveFile(disk, op.destination, op.source)
    ELSE Unlink(disk, op.destination)

\* lines 334 and 340: the record is acted on when its destination exists
Replayable(op, disk, dd) ==
    op.operation \in {"move", "copy"} /\ Exists(op.destination, disk, dd)

\* one iteration of the loop of undo_operations.  A record that lacks a
\* required field raises KeyError at lines 326-328, outside the inner try:
\* line 353 catches it and undo_operations returns 0.  fault: shutil.move or
\* unlink raises, which the inner except logs.
UndoStep(fault) ==
    /\ pc = "undo"
    /\ upos < Len(operations)
    /\ upos' = upos + 1
    /\ replayed' = Append(replayed, ReplayOrder(operations)[upos + 1])
    /\ LET op == ReplayOrder(operations)[upos + 1]
       IN  IF ~(RequiredFields \subseteq DOMAIN op)
           THEN /\ ~fault
                /\ errors' = errors + 1
                /\ returned' = <<0>>
                /\ exit_status' = {0}
                /\ trace' = Append(trace, "undo_abort")
                /\ pc' = "idle"
                /\ UNCHANGED <<fs, dirs, undone_count, faults>>
           ELSE /\ UNCHANGED <<returned, exit_status, trace, pc>>
                /\ IF uargs.dry_run \/ ~Replayable(op, fs, dirs)
                   THEN /\ ~fault
                        /\ UNCHANGED <<fs, dirs, undone_count, errors, faults>>
                   ELSE LET blocked == /\ op.operation = "move"
                                       /\ MkdirBlocked(op.source.dir, fs)
                            raised == fault \/ blocked \/ op.destination \notin DOMAIN fs
                        IN  /\ fault => faults < MaxFaults
                            /\ faults' = IF fault THEN faults + 1 ELSE faults
                            /\ dirs' = IF op.operation = "move" /\ ~blocked
                                       THEN dirs \cup Ancestors(op.source.dir)
                                       ELSE dirs
                            /\ fs' = IF raised THEN fs ELSE UndoEffect(fs, op)
                            /\ undone_count' = IF raised THEN undone_count
                                               ELSE undone_count + 1
                            /\ errors' = IF raised THEN errors + 1 ELSE errors
    /\ UNCHANGED <<next_id, log_file, uargs, operations, ufs0>>
    /\ UNCHANGED organize_vars

\* the loop is over: undo_operations returns undone_count, main() prints it
\* and returns None
UndoFinish ==
    /\ pc = "undo"
    /\ upos = Len(operations)
    /\ returned' = <<undone_count>>
    /\ exit_status' = {0}
    /\ trace' = Append(trace, IF uargs.dry_run THEN "undo_dry" ELSE "undo")
    /\ pc' = "idle"
    /\ UNCHANGED <<fs, dirs, next_id, log_file, errors, faults>>
    /\ UNCHANGED undo_vars
    /\ UNCHANGED organize_vars

----------------------------------------------------------------------------

Next ==
    \/ \E a \in OrganizeArgs(args.dest) : OrganizeStart(a)
    \/ \E fault \in {"none", "mkdir", "xfer"} : OrganizeStep(fault)
    \/ OrganizeFinish
    \/ \E u \in UndoArgs(log_file) : UndoStart(u)
    \/ \E fault \in BOOLEAN : UndoStep(fault)
    \/ UndoFinish

Spec == Init /\ [][Next]_vars

----------------------------------------------------------------------------
(* Runs of organize mode over the filter options: each of --pattern and    *)
(* --exclude absent, a pattern some names match, a malformed pattern; each *)
(* of --min-size and --max-size absent or the size of a file of the model *)

Patterns == { {}, {"^a"}, {"txt$"}, {"["} }

\* the files of the model are 1, 2 and 3 bytes long
SizeLimits == { {}, {2} }

FilterChoices ==
    { Filter(p, x, lo, hi) : p \in Patterns, x \in Patterns, lo \in SizeLimits, hi \in SizeLimits }

\* the live command lines on the source directory with --dest d
FilterArgs(d) ==
    { Args(SRC, d, FALSE, r, c, f, {}) : r \in BOOLEAN, c \in BOOLEAN, f \in FilterChoices }

NextFilter ==
    \/ \E a \in FilterArgs(args.dest) : OrganizeStart(a)
    \/ \E fault \in {"none", "mkdir", "xfer"} : OrganizeStep(fault)
    \/ OrganizeFinish

SpecFilter == Init /\ [][NextFilter]_vars

----------------------------------------------------------------------------
(* Runs of organize mode with --config: a table in which an extension is   *)
(* listed by two categories and some entries are written in upper case     *)

CUSTOM_FILE_TYPES ==
    << Entry("Pics", <<".JPG", ".png">>),
       Entry("Images", <<".jpg", ".jpeg">>),
       Entry("Text", <<".txt">>),
       Entry("Documents", <<".TXT", ".txt", ".pdf">>) >>

Configs == { {}, {ConfigMissing}, {ConfigFile(CUSTOM_FILE_TYPES)} }

\* the command lines on the source directory with --dest d and no filter
ConfigArgs(d) ==
    { [Args(SRC, d, dr, r, c, Filter({}, {}, {}, {}), {}) EXCEPT !.config = cf] :
        dr \in BOOLEAN, r \in BOOLEAN, c \in BOOLEAN, cf \in Configs }

NextConfig ==
    \/ \E a \in ConfigArgs(args.dest) : OrganizeStart(a)
    \/ \E fault \in {"none", "mkdir", "xfer"} : OrganizeStep(fault)
    \/ OrganizeFinish

SpecConfig == Init /\ [][NextConfig]_vars

----------------------------------------------------------------------------
(* Vocabulary of the properties *)

Last(s) == s[Len(s)]

NoFilter(a) ==
    a.pattern = {} /\ a.exclude_pattern = {} /\ a.min_size = {} /\ a.max_size = {}

\* the <<source, destination>> pairs of a ledger
Pairs(log) == { <<log[i].source, log[i].destination>> : i \in 1..Len(log) }

\* the loop of a live run of organize_files is over
RunDone == pc = "organize" /\ idx = Len(files) /\ ~args.dry_run

\* undo_operations is replaying the log the last live run saved, untouched
InUndoOfRun ==
    /\ pc = "undo"
    /\ ~uargs.dry_run
    /\ trace # <<>>
    /\ Last(trace) = "live"
    /\ uargs.log = LogDocument(Len(trace), operations_log)

\* an undo of the log the live run before it saved, untouched, has finished
AfterUndoOfRun ==
    /\ pc = "idle"
    /\ Len(trace) >= 2
    /\ trace[Len(trace)] = "undo"
    /\ trace[Len(trace) - 1] = "live"
    /\ uargs.log = LogDocument(Len(trace) - 1, operations_log)

\* the file that was at path p when the run started is at p again
Restored(p) == p \in DOMAIN fs /\ p \in DOMAIN fs0 /\ fs[p] = fs0[p]

----------------------------------------------------------------------------
(* The claims *)

\* C1: after a move run without filters and an undo of the ledger it saved,
\* with nothing in between and no record's undo refused by the filesystem,
\* every transferred file is back at its source path, and the file a record
\* transferred is no longer at the record's destination.
C1_MoveRoundTrip ==
    (AfterUndoOfRun /\ ~args.copy_files /\ NoFilter(args) /\ errors = 0)
    => \A i \in 1..Len(operations_log) :
          LET r == operations_log[i]
          IN  /\ Restored(r.source)
              /\ ~(r.destination \in DOMAIN fs /\ fs[r.destination].id = fs0[r.source].id)

C1_Witness ==
    /\ AfterUndoOfRun /\ ~args.copy_files /\ NoFilter(args) /\ errors = 0
    /\ Len(operations_log) >= 2
    /\ undone_count = Len(operations_log)

\* C2: in a copy run and in the undo of its ledger, every file that was on
\* disk when the run started stays at its path, unchanged, in every state;
\* after the undo (no record's undo refused by the filesystem) no recorded
\* destination is left.
C2_CopyRoundTrip ==
    /\ ( /\ args.copy_files
         /\ ~args.dry_run
         /\ (pc = "organize" \/ InUndoOfRun \/ AfterUndoOfRun) )
       => \A p \in DOMAIN fs0 : Restored(p)
    /\ (AfterUndoOfRun /\ args.copy_files /\ errors = 0)
       => \A i \in 1..Len(operations_log) : operations_log[i].destination \notin DOMAIN fs

C2_Witness ==
    /\ AfterUndoOfRun /\ args.copy_files /\ errors = 0
    /\ Len(operations_log) >= 2
    /\ undone_count = Len(operations_log)

\* C3: when the undo log is missing, is not JSON, or holds a record without
\* one of the fields source, destination, operation, undo_operations
\* returns 0 and the files on disk are those of before the call.
C3_UndoAbortsBeforeMutation ==
    (pc = "idle" /\ trace # <<>> /\ Last(trace) = "undo_abort")
    => returned = <<0>> /\ fs = ufs0

\* C4: a candidate whose transfer fails does not stop the run.  In every
\* state of a live run the candidates consumed so far that pass the filter
\* are all counted, those of them without a record are as many as the errors
\* logged, files_moved = files_processed - errors, every recorded transfer
\* is still in place at its destination, and the loop ends only when every
\* candidate has been consumed.
C4_PerFileIsolation ==
    (pc = "organize" /\ ~args.dry_run)
    => LET passed == { i \in 1..idx : PassesFilter(files[i], args, fs0) }
           recorded == { i \in passed :
                           \E k \in 1..Len(operations_log) :
                               operations_log[k].source = files[i] }
       IN  /\ idx <= Len(files)
           /\ files_processed = Cardinality(passed)
           /\ Cardinality(passed \ recorded) = errors
           /\ files_moved = files_processed - errors
           /\ Len(operations_log) = files_moved
           /\ \A i \in 1..Len(operations_log) :
                 LET r == operations_log[i]
                 IN  /\ r.destination \in DOMAIN fs
                     /\ fs[r.destination].size = fs0[r.source].size
                     /\ ~args.copy_files => fs[r.destination] = fs0[r.source]

\* a run in which the first candidate failed and the second was transferred
C4_Witness ==
    /\ RunDone
    /\ Len(files) = 2
    /\ errors = 1
    /\ files_processed = 2
    /\ files_moved = 1
    /\ operations_log[1].source = files[2]

\* C5: the ledger changes only by the append of one record, in a step in
\* which the move or copy succeeded: right after it the destination exists,
\* the source of a 'move' record is gone and the source of a 'copy' record
\* is still there; a step in which the transfer failed appends nothing.
C5_LedgerConsistency ==
    [][ pc = "organize"
        => \/ operations_log' = operations_log
           \/ /\ Len(operations_log') = Len(operations_log) + 1
              /\ SubSeq(operations_log', 1, Len(operations_log)) = operations_log
              /\ errors' = errors
              /\ LET r == Last(operations_log')
                 IN  /\ r.destination \in DOMAIN fs'
                     /\ r.source \in DOMAIN fs
                     /\ r.operation = "move" => r.source \notin DOMAIN fs'
                     /\ r.operation = "copy" => r.source \in DOMAIN fs'
                     /\ r.operation = (IF args.copy_files THEN "copy" ELSE "move") ]_vars

\* a run in which one transfer failed and another was recorded
C5_Witness ==
    /\ pc = "organize"
    /\ ~args.dry_run
    /\ errors = 1
    /\ Len(operations_log) = 1

\* C6: a dry run changes no file and no directory, leaves the ledger empty
\* and the undo log file alone, and returns files_moved = 0.
C6_DryRunNoEffect ==
    [][ (pc' = "organize" \/ pc = "organize") /\ args'.dry_run
        => /\ fs' = fs
           /\ dirs' = dirs
           /\ log_file' = log_file
           /\ operations_log' = <<>>
           /\ files_moved' = 0
           /\ pc' = "idle" => returned' = <<files_processed, 0>> ]_vars

\* a finished dry run that reported two intended actions
C6_Witness ==
    /\ pc = "idle"
    /\ trace # <<>>
    /\ Last(trace) = "dry"
    /\ Len(reported) = 2
    /\ returned = <<2, 0>>

\* C7: a live run that starts from the disk a dry run of the same command
\* started from, gets the same listing and meets no error records exactly
\* the <<source, target>> pairs the dry run reported.
C7_DryRunPredictsLiveRun ==
    ( /\ RunDone
      /\ errors = 0
      /\ preview.ran
      /\ preview.fs = fs0
      /\ preview.files = files
      /\ preview.args = [args EXCEPT !.dry_run = TRUE, !.save_log = {}] )
    => SeqToSet(preview.reported) = Pairs(operations_log)

\* C8: undo_operations consumes the records of the loaded log last to first;
\* and where a record's destination is the path an earlier record of a move
\* run moved a file away from, the undo (not refused by the filesystem)
\* puts both files back at their source paths.
C8_UndoReplaysInReverse ==
    /\ \A k \in 1..Len(replayed) : replayed[k] = operations[Len(operations) + 1 - k]
    /\ (AfterUndoOfRun /\ ~args.copy_files /\ errors = 0)
       => \A i, j \in 1..Len(operations_log) :
             (i < j /\ operations_log[j].destination = operations_log[i].source)
             => /\ Restored(operations_log[i].source)
                /\ Restored(operations_log[j].source)

C8_Witness ==
    /\ AfterUndoOfRun /\ ~args.copy_files /\ errors = 0
    /\ Len(replayed) = 2
    /\ operations_log[2].destination = operations_log[1].source

\* C9: replaying a record whose destination does not exist changes no file,
\* counts nothing and goes on to the next record; a record is counted
\* exactly when its destination existed and its move back or delete did not
\* fail; and undo_operations returns the number of records so counted.
C9_UndoSkipsVanished ==
    [][ (pc = "undo" /\ ~uargs.dry_run)
        => /\ upos < Len(operations)
              => LET op == operations[Len(operations) - upos]
                 IN  RequiredFields \subseteq DOMAIN op
                     => /\ ~Exists(op.destination, fs, dirs)
                           => /\ fs' = fs
                              /\ undone_count' = undone_count
                              /\ errors' = errors
                              /\ pc' = "undo"
                              /\ upos' = upos + 1
                        /\ undone_count' = undone_count + 1
                           <=> /\ Exists(op.destination, fs, dirs)
                               /\ op.operation \in {"move", "copy"}
                               /\ errors' = errors
                        /\ undone_count' \in {undone_count, undone_count + 1}
           /\ pc' = "idle" => returned' = <<undone_count'>> ]_vars

\* C10: main() exits with status 1 exactly when the invocation was aborted:
\* the source is missing or is no directory, the undo log is missing or
\* corrupt.
C10_AbortGivesExitOne ==
    (pc = "idle" /\ trace # <<>>)
    => (exit_status = {1} <=> Last(trace) \in {"organize_abort", "undo_abort"})

\* the category directories of the model under --dest
CategoryDirs == { Append(args.dest, c) : c \in {"Documents", "Images", "Other"} }

\* the paths get_unique_filename can be asked about: every file name on disk
\* in every category directory, and every path of a file on disk
Targets ==
    DOMAIN fs \cup { [p EXCEPT !.dir = d] : p \in DOMAIN fs, d \in CategoryDirs }

\* C11: on every disk the program reaches and for every target path,
\* get_unique_filename returns the target itself when nothing is at it, and
\* otherwise stem_k+suffix in the same directory for the smallest k >= 1 at
\* which nothing is; nothing is at the returned path, and asking again for
\* the returned path gives it back.
C11_UniqueFilename ==
    \A t \in Targets :
        LET r == get_unique_filename(t, fs, dirs)
        IN  /\ ~Exists(t, fs, dirs) => r = t
            /\ Exists(t, fs, dirs)
               => /\ r.dir = t.dir /\ r.base = t.base /\ r.ext = t.ext
                  /\ Len(r.ctr) = Len(t.ctr) + 1
                  /\ SubSeq(r.ctr, 1, Len(t.ctr)) = t.ctr
                  /\ Last(r.ctr) >= 1
                  /\ \A m \in 1..(Last(r.ctr) - 1) : Exists(Numbered(t, m), fs, dirs)
            /\ ~Exists(r, fs, dirs)
            /\ get_unique_filename(r, fs, dirs) = r

\* a run has placed a file at stem_1+suffix beside the file that holds the
\* plain name, so that the next free name for it is stem_2+suffix
C11_Witness ==
    /\ pc = "organize"
    /\ \E i \in 1..Len(operations_log) :
          LET d == operations_log[i].destination
              t == [d EXCEPT !.ctr = <<>>]
          IN  /\ d.ctr = <<1>>
              /\ t \in DOMAIN fs
              /\ get_unique_filename(t, fs, dirs) = Numbered(t, 2)

\* C12: an organize invocation whose source path does not exist raises
\* FileNotFoundError, one whose source exists but is no directory raises
\* NotADirectoryError; either way nothing is enumerated, no file, directory
\* or undo log changes and the ledger is empty; a source that is a
\* directory passes the checks.
C12_SourcePrecondition ==
    [][ (pc = "idle" /\ (pc' = "organize" \/ (trace' # trace /\ Last(trace') = "organize_abort")))
        => LET missing == ~Exists(AsFile(args'.source), fs, dirs)
               nodir == ~missing /\ args'.source \notin dirs
               aborted == /\ pc' = "idle"
                          /\ trace' = Append(trace, "organize_abort")
                          /\ files' = <<>>
                          /\ operations_log' = <<>>
                          /\ fs' = fs /\ dirs' = dirs /\ log_file' = log_file
           IN  /\ missing => aborted /\ returned' = <<"FileNotFoundError">>
               /\ nodir => aborted /\ returned' = <<"NotADirectoryError">>
               /\ (~missing /\ ~nodir) => pc' = "organize" ]_vars

\* an invocation on a plain file has been turned down
C12_Witness ==
    /\ pc = "idle"
    /\ trace = <<"organize_abort">>
    /\ args.source = <<"plain">>
    /\ PLAIN \in DOMAIN fs
    /\ returned = <<"NotADirectoryError">>

\* an organize invocation that got past the checks of the source has finished
OrganizeReturned == pc = "idle" /\ trace # <<>> /\ Last(trace) \in {"live", "dry"}

\* C13: all through a run, files_processed is the number of candidates
\* consumed so far that pass the filter (a rejected candidate is not counted,
\* one whose transfer failed is), files_moved is the number of records in
\* the ledger of the run, and files_moved <= files_processed; the pair
\* organize_files returns is that of the counters after the last candidate.
C13_RunCounters ==
    (pc = "organize" \/ OrganizeReturned)
    => LET passed == { i \in 1..idx : PassesFilter(files[i], args, fs0) }
       IN  /\ files_processed = Cardinality(passed)
           /\ files_moved = Len(operations_log)
           /\ files_moved <= files_processed
           /\ args.dry_run => files_moved = 0
           /\ OrganizeReturned
              => idx = Len(files) /\ returned = <<files_processed, files_moved>>

\* a finished live run of two candidates: one was rejected by the filter,
\* the transfer of the other failed
C13_Witness ==
    /\ OrganizeReturned
    /\ ~args.dry_run
    /\ Len(files) = 2
    /\ errors = 1
    /\ returned = <<1, 0>>

\* the arguments with every malformed pattern taken away
WithoutMalformed(a) ==
    [a EXCEPT !.pattern = IF @ \subseteq Malformed THEN {} ELSE @,
              !.exclude_pattern = IF @ \subseteq Malformed THEN {} ELSE @]

HasMalformed(a) ==
    a.pattern \cap Malformed # {} \/ a.exclude_pattern \cap Malformed # {}

\* C14: a malformed --pattern or --exclude rejects no file: every consumed
\* candidate that passes the filter without the malformed pattern is counted
\* in files_processed; and when a malformed pattern is the only filter, every
\* consumed candidate is counted and, unless the filesystem refused it,
\* transferred and recorded.
C14_MalformedFailOpen ==
    (pc = "organize" /\ ~args.dry_run)
    => LET open == { i \in 1..idx : PassesFilter(files[i], WithoutMalformed(args), fs0) }
       IN  /\ files_processed = Cardinality(open)
           /\ (HasMalformed(args) /\ NoFilter(WithoutMalformed(args)))
              => /\ files_processed = idx
                 /\ Len(operations_log) = idx - errors

\* the size test as the claim states it, for a file of known size
SizeWithin(size, lo, hi) ==
    (lo = {} \/ \A m \in lo : size >= m) /\ (hi = {} \/ \A m \in hi : size <= m)

\* the include test: no pattern, a malformed one, or one the name matches
IncludeOk(p, a) ==
    a.pattern = {} \/ a.pattern \subseteq Malformed \/ \E re \in a.pattern : ReSearch(re, p)

\* the exclude test: a pattern is given and the name matches it
ExcludeHit(p, a) == \E re \in a.exclude_pattern \ Malformed : ReSearch(re, p)

\* candidate number i of the run has a record in the ledger
Recorded(i) == \E k \in 1..Len(operations_log) : operations_log[k].source = files[i]

\* C15: check_file_size passes a file of known size exactly when the size is
\* not below min_size and not above max_size (each bound, when given,
\* included); in a live run a candidate is transferred only if it passes the
\* include test, does not match the exclude pattern and passes the size
\* test; with size bounds as the only filter and no error, exactly the
\* candidates within the bounds are transferred; and a candidate that fails
\* one of the tests stays at its source path, unchanged.
C15_SizeFilterConjunction ==
    /\ \A p \in DOMAIN fs : \A lo \in { {}, {1}, {2}, {3} } : \A hi \in { {}, {1}, {2}, {3} } :
          check_file_size(p, lo, hi, fs) <=> SizeWithin(fs[p].size, lo, hi)
    /\ (pc = "organize" /\ ~args.dry_run)
       => \A i \in 1..idx :
             LET p == files[i]
                 within == SizeWithin(fs0[p].size, args.min_size, args.max_size)
                 ok == IncludeOk(p, args) /\ ~ExcludeHit(p, args) /\ within
             IN  /\ Recorded(i) => ok
                 /\ (args.pattern = {} /\ args.exclude_pattern = {} /\ errors = 0)
                    => (Recorded(i) <=> within)
                 /\ ~ok => p \in DOMAIN fs /\ fs[p] = fs0[p] /\ ~Recorded(i)

\* a live run with --min-size 2 --max-size 2 has transferred a file of
\* 2 bytes and turned down a file of another size
C15_Witness ==
    /\ RunDone
    /\ args.min_size = {2} /\ args.max_size = {2}
    /\ args.pattern = {} /\ args.exclude_pattern = {}
    /\ Len(files) = 2
    /\ errors = 0
    /\ Len(operations_log) = 1
    /\ fs0[operations_log[1].source].size = 2

\* the extension strings the resolver is asked about
Extensions == { ".txt", ".TXT", ".jpg", ".JPG", ".pdf", ".png", ".zzz", "" }

\* category is the category of the first entry of the table, in its order,
\* whose extension list has a member satisfying Is, or "Other" without one
FirstOf(table, Is(_), category) ==
    LET listing(i) == \E j \in 1..Len(table[i].extensions) : Is(table[i].extensions[j])
    IN  \/ /\ category = "Other"
           /\ \A i \in 1..Len(table) : ~listing(i)
        \/ \E i \in 1..Len(table) :
              /\ listing(i)
              /\ \A k \in 1..(i - 1) : ~listing(k)
              /\ category = table[i].category

\* two extensions that differ only in letter case get the same category,
\* from get_category and from the lookup of src/main.py
CaseBlind ==
    \A e1, e2 \in Extensions :
        Lower(e1) = Lower(e2)
        => /\ get_category(e1, file_types) = get_category(e2, file_types)
           /\ organize_category(e1) = organize_category(e2)

\* the lookup of src/main.py gives the first category of FILE_TYPES that
\* lists the lower-cased extension
MainLookup ==
    \A e \in Extensions :
        LET Same(x) == x = Lower(e) IN FirstOf(FILE_TYPES, Same, organize_category(e))

\* every record of the run names the category of its source's extension,
\* and its destination is in the directory of that category
RecordsResolved ==
    pc = "organize"
    => \A k \in 1..Len(operations_log) :
          LET r == operations_log[k]
          IN  /\ r.category = get_category(r.source.ext, file_types)
              /\ r.destination.dir = Append(args.dest, r.category)

\* C16, as stated: for every extension, get_category gives the first
\* category, in the order of the table, whose extension list contains the
\* lower-cased extension, and "Other" when no list contains it; extensions
\* that differ only in letter case get the same category.
C16_CategoryResolver ==
    /\ \A e \in Extensions :
          LET Same(x) == x = Lower(e)
          IN  FirstOf(file_types, Same, get_category(e, file_types))
    /\ CaseBlind
    /\ MainLookup
    /\ RecordsResolved

\* C16, amended: the first category whose extension list contains an entry
\* equal to the extension when both are lower-cased.
C16_CategoryResolverFolded ==
    /\ \A e \in Extensions :
          LET Folded(x) == Lower(x) = Lower(e)
          IN  FirstOf(file_types, Folded, get_category(e, file_types))
    /\ CaseBlind
    /\ MainLookup
    /\ RecordsResolved

\* a run under the custom table has filed b.JPG under "Pics", by the entry
\* ".JPG" and ahead of "Images", and a.txt under "Text", ahead of "Documents"
C16_Witness ==
    /\ RunDone
    /\ file_types = CUSTOM_FILE_TYPES
    /\ \E k \in 1..Len(operations_log) :
          operations_log[k].source.ext = ".JPG" /\ operations_log[k].category = "Pics"
    /\ \E k \in 1..Len(operations_log) :
          operations_log[k].source.ext = ".txt" /\ operations_log[k].category = "Text"

\* C17: whenever a step of a run changes the files, nothing was at the
\* destination of the record it appends (no file, no directory) and every
\* file that was on disk, other than the source of a move, is still at its
\* path and unchanged; and the destinations recorded in the ledger of one
\* run are pairwise distinct.
C17_NoOverwrite ==
    [][ pc = "organize"
        => /\ fs' # fs
              => LET r == Last(operations_log')
                 IN  /\ Len(operations_log') = Len(operations_log) + 1
                     /\ ~Exists(r.destination, fs, dirs)
                     /\ r.destination \in DOMAIN fs'
                     /\ \A p \in DOMAIN fs :
                           (r.operation = "move" /\ p = r.source)
                           \/ (p \in DOMAIN fs' /\ fs'[p] = fs[p])
           /\ \A i, j \in 1..Len(operations_log') :
                 i # j => operations_log'[i].destination # operations_log'[j].destination ]_vars

\* a run has transferred two files of the same name and category into a
\* category directory that already held a file of that name
C17_Witness ==
    /\ RunDone
    /\ Len(operations_log) = 2
    /\ \A k \in 1..2 : operations_log[k].source.base = "a" /\ operations_log[k].source.ext = ".txt"
    /\ \E p \in DOMAIN fs0 :
          p.dir = Append(args.dest, "Documents") /\ p.base = "a" /\ p.ext = ".txt"

\* C18: the candidates of a run are the files that were in the source
\* directory (in its tree, with --recursive) when the run started, each
\* listed once; a candidate not yet consumed is still the file that was
\* listed, at its path and unchanged, and no record of the run has put a
\* file at its path; no source path occurs in two records of the run.
C18_FixedCandidates ==
    pc = "organize"
    => /\ SeqToSet(files) = { p \in DOMAIN fs0 :
                               IF args.recursive THEN IsPrefix(args.source, p.dir)
                               ELSE p.dir = args.source }
       /\ \A i, j \in 1..Len(files) : i # j => files[i] # files[j]
       /\ \A j \in (idx + 1)..Len(files) :
             /\ files[j] \in DOMAIN fs
             /\ fs[files[j]] = fs0[files[j]]
             /\ \A k \in 1..Len(operations_log) : operations_log[k].destination # files[j]
       /\ \A i, j \in 1..Len(operations_log) :
             i # j => operations_log[i].source # operations_log[j].source

\* a recursive run whose destination lies inside the source has consumed
\* its two candidates and recorded both, placing files inside the tree it
\* listed
C18_Witness ==
    /\ RunDone
    /\ args.recursive
    /\ IsPrefix(args.source, args.dest)
    /\ Len(files) = 2
    /\ Len(operations_log) = 2
    /\ \E k \in 1..2 : operations_log[k].source.dir = Append(args.dest, "Documents")

\* a second undo of the log a live run saved has finished, right after a
\* first undo of the same log, and the filesystem refused nothing
AfterSecondUndo ==
    /\ pc = "idle"
    /\ Len(trace) >= 3
    /\ SubSeq(trace, Len(trace) - 2, Len(trace)) = <<"live", "undo", "undo">>
    /\ uargs.log = LogDocument(Len(trace) - 2, operations_log)
    /\ faults = 0

\* C19: a second undo of the same ledger, right after the first, undoes 0
\* operations and leaves every file as the first undo left it.
C19_UndoIdempotent ==
    AfterSecondUndo => returned = <<0>> /\ fs = ufs0

\* C20: in every step of a live undo in which the filesystem refuses
\* nothing, replaying a 'move' record leaves a file that is at the record's
\* source path where it is, unchanged; and replaying a 'copy' record
\* removes no file that was on disk before the run that wrote the record,
\* and no file at another path than the record's destination.
C20_UndoDestroysNothing ==
    [][ (pc = "undo" /\ ~uargs.dry_run /\ upos < Len(operations) /\ faults' = 0)
        => LET op == operations[Len(operations) - upos]
               before == { fs0[q].id : q \in DOMAIN fs0 }
           IN  RequiredFields \subseteq DOMAIN op
               => /\ (op.operation = "move" /\ op.source \in DOMAIN fs)
                     => op.source \in DOMAIN fs' /\ fs'[op.source] = fs[op.source]
                  /\ op.operation = "copy"
                     => \A p \in DOMAIN fs \ DOMAIN fs' :
                           p = op.destination /\ fs[p].id \notin before ]_vars

====
